---- MODULE Spec2Model ----
(***************************************************************************)
(* repeated-files-detector (src/main.go): the concurrent pipeline of run   *)
(*   getFilesRecursively -> md5All -> groupByDirectory ->                   *)
(*   getDirectoriesToCompare -> countRepeatedFiles -> printRepeatedFiles    *)
(* as a state machine.  Every goroutine is a process with a position; the  *)
(* unbuffered channels paths, hashes, repeated and repeatedArray are        *)
(* rendezvous (one action moves sender and receiver together); errc is the  *)
(* only buffered channel (capacity 1).  Steps that touch no channel are     *)
(* folded into the channel operation that precedes them.                    *)
(***************************************************************************)
EXTENDS Integers, Sequences, FiniteSets, TLC

(***************************************************************************)
(* Bounds of the model.                                                     *)
(***************************************************************************)
\* -threads takes values 0..MaxWorkers
MaxWorkers == 2
\* file bytes are drawn from 1..MaxByte
MaxByte == 2
\* -repeated takes values -1..MaxRepeated
MaxRepeated == 2
\* the numbers handed to parseToBytes have up to MaxDigits digits (a few
\* longer ones are added by name)
MaxDigits == 2

(***************************************************************************)
(* The directory tree handed to filepath.Walk, in the lexical order in     *)
(* which Walk visits it.  A path is the sequence of its components.         *)
(***************************************************************************)
Entries ==
    << [path |-> <<"r">>,            dir |-> TRUE],
       [path |-> <<"r", "a">>,       dir |-> TRUE],
       [path |-> <<"r", "a", "f">>,  dir |-> FALSE],
       [path |-> <<"r", "b">>,       dir |-> TRUE],
       [path |-> <<"r", "b", "f">>,  dir |-> FALSE],
       [path |-> <<"r", "b", "gggg">>, dir |-> FALSE],
       [path |-> <<"r", "c">>,       dir |-> TRUE],
       [path |-> <<"r", "c", "f">>,  dir |-> FALSE] >>

NEntries == Len(Entries)
FileIdx == {k \in 1..NEntries : ~Entries[k].dir}
DirIdx == {k \in 1..NEntries : Entries[k].dir}

Nil == "nil"
ReadError == "read error"
WalkError == "walk error"
WalkCanceled == "walk canceled"
NoFile == [err |-> Nil, path |-> <<>>, directory |-> <<>>, hash |-> 0]

\* filepath.Dir and filepath.Base of a path with at least two components
Dir(path) == SubSeq(path, 1, Len(path) - 1)
Base(path) == path[Len(path)]

\* len(string) of a path: its components joined by one separator each
RECURSIVE StrLen(_)
StrLen(path) ==
    IF path = <<>> THEN 0
    ELSE IF Len(path) = 1 THEN Len(path[1])
    ELSE Len(path[1]) + 1 + StrLen(Tail(path))

\* md5.Sum over the bytes of a file: an injective digest, md5.Sum(nil) = 0
RECURSIVE Md5Sum(_)
Md5Sum(data) ==
    IF data = <<>> THEN 0
    ELSE data[1] + (MaxByte + 1) * Md5Sum(Tail(data))

(***************************************************************************)
(* reg.MatchString(path) for the patterns of the model: NoReg is the nil   *)
(* regexp; [word |-> w, anchored |-> FALSE] is the pattern `w`, found       *)
(* anywhere in the path; [word |-> w, anchored |-> TRUE] is `w$`, found     *)
(* only at the end of the path.  No component of Entries contains another.  *)
(***************************************************************************)
NoReg == [word |-> "", anchored |-> FALSE]

MatchString(r, path) ==
    IF r.anchored THEN Base(path) = r.word
    ELSE \E i \in 1..Len(path) : path[i] = r.word

(***************************************************************************)
(* parseToBytes (main.go:28-58).  An int64 is its two's complement bit      *)
(* pattern in seven limbs of base 1024, least significant first; the        *)
(* seventh limb holds bits 60..63, bit 63 being the sign.  A natural number *)
(* of any size is a sequence of limbs without leading zero limb.            *)
(***************************************************************************)
\* 1 << 10, the ratio of two consecutive units (main.go:24)
Radix == 1024
Int64Limbs == 7
TopLimb == 16

Digits == <<"0", "1", "2", "3", "4", "5", "6", "7", "8", "9">>
DigitVal(c) == (CHOOSE i \in 1..Len(Digits) : Digits[i] = c) - 1

\* isNumber (main.go:29-31)
isNumber(c) == \E i \in 1..Len(Digits) : Digits[i] = c

\* the loop of main.go:34-40: the leading digits of size
RECURSIVE LeadingDigits(_)
LeadingDigits(size) ==
    IF size = <<>> \/ ~isNumber(Head(size)) THEN <<>>
    ELSE <<Head(size)>> \o LeadingDigits(Tail(size))

\* limbs * m + carry, on natural numbers
RECURSIVE MulAdd(_, _, _)
MulAdd(limbs, m, carry) ==
    IF limbs = <<>>
    THEN (IF carry = 0 THEN <<>> ELSE <<carry % Radix>> \o MulAdd(<<>>, m, carry \div Radix))
    ELSE LET v == limbs[1] * m + carry
         IN  <<v % Radix>> \o MulAdd(Tail(limbs), m, v \div Radix)

\* the value of a string of decimal digits, read from the left
RECURSIVE Decimal(_, _)
Decimal(number, acc) ==
    IF number = <<>> THEN acc
    ELSE Decimal(Tail(number), MulAdd(acc, 10, DigitVal(Head(number))))

\* a natural number that fits an int (64 bits): below 2^63
FitsInt(limbs) ==
    Len(limbs) < Int64Limbs \/ (Len(limbs) = Int64Limbs /\ limbs[Int64Limbs] < TopLimb \div 2)

NotANumber == "first character should be a number"
OutOfRange == "value out of range"
InvalidUnit == "is not a valid unit"

\* strconv.Atoi on a non-empty string of digits (main.go:46): the value, or
\* the range error of a value that does not fit an int
Atoi(number) ==
    LET v == Decimal(number, <<>>)
    IN  IF FitsInt(v) THEN [n |-> v, err |-> Nil] ELSE [n |-> <<>>, err |-> OutOfRange]

\* validUnits (main.go:19); units[unit] = 1 << (10 * i) (main.go:22-26)
validUnits ==
    << <<"B">>, <<"K", "B">>, <<"M", "B">>, <<"G", "B">>, <<"T", "B">>,
       <<"P", "B">>, <<"E", "B">> >>
IsUnit(unit) == \E i \in 1..Len(validUnits) : validUnits[i] = unit
UnitShift(unit) == (CHOOSE i \in 1..Len(validUnits) : validUnits[i] = unit) - 1

\* strings.ToUpper (main.go:52) on the characters of the model
LowerCase == <<"b", "k", "m", "g", "t", "p", "e", "x", "i">>
UpperCase == <<"B", "K", "M", "G", "T", "P", "E", "X", "I">>
ToUpper(str) ==
    [j \in 1..Len(str) |->
        IF \E i \in 1..Len(LowerCase) : LowerCase[i] = str[j]
        THEN UpperCase[CHOOSE i \in 1..Len(LowerCase) : LowerCase[i] = str[j]]
        ELSE str[j]]

\* a natural number times 1024^k
ShiftLimbs(limbs, k) ==
    IF limbs = <<>> THEN <<>> ELSE [i \in 1..k |-> 0] \o limbs

\* the low 64 bits of a natural number: the int64 it wraps to
Wrap64(limbs) ==
    [i \in 1..Int64Limbs |->
        IF i > Len(limbs) THEN 0
        ELSE IF i = Int64Limbs THEN limbs[i] % TopLimb
        ELSE limbs[i]]

Int64Zero == [i \in 1..Int64Limbs |-> 0]
Int64Negative(n) == n[Int64Limbs] >= TopLimb \div 2

\* parseToBytes (main.go:28-58)
ParseToBytes(size) ==
    LET number == LeadingDigits(size)
        numberInt == Atoi(number)
        unit == ToUpper(SubSeq(size, Len(number) + 1, Len(size)))
    IN  IF Len(number) = 0 THEN [n |-> Int64Zero, err |-> NotANumber]
        ELSE IF numberInt.err # Nil THEN [n |-> Int64Zero, err |-> numberInt.err]
        ELSE IF ~IsUnit(unit) THEN [n |-> Int64Zero, err |-> InvalidUnit]
        ELSE [n |-> Wrap64(ShiftLimbs(numberInt.n, UnitShift(unit))), err |-> Nil]

\* no call of parseToBytes has returned
NoCall == [n |-> Int64Zero, err |-> "no call"]

\* the numbers of the model: every string of up to MaxDigits digits, a
\* number of four digits, and the largest int and its successor
RECURSIVE DigitStrings(_)
DigitStrings(len) ==
    IF len = 0 THEN {<<>>}
    ELSE {<<>>} \cup {<<Digits[i]>> \o t : i \in 1..Len(Digits), t \in DigitStrings(len - 1)}

MaxInt == <<"9", "2", "2", "3", "3", "7", "2", "0", "3", "6", "8", "5", "4", "7", "7",
            "5", "8", "0", "7">>
Numbers ==
    DigitStrings(MaxDigits)
    \cup {<<"1", "0", "2", "4">>, MaxInt, [MaxInt EXCEPT ![Len(MaxInt)] = "8"]}

\* what follows the number: the seven units, units in lower and mixed case,
\* and strings that are no unit in any case
Suffixes ==
    {validUnits[i] : i \in 1..Len(validUnits)}
    \cup {<<"b">>, <<"k", "b">>, <<"M", "b">>, <<"g", "B">>, <<"e", "b">>}
    \cup {<<>>, <<"K">>, <<"X", "B">>, <<"B", "B">>, <<"K", "i", "B">>, <<"B", "1">>,
          <<"-", "1", "B">>, <<" ", "B">>}

SizeStrings == {num \o suf : num \in Numbers, suf \in Suffixes}

VARIABLES
    fs,             \* the file system: entry index -> what lstat and ReadFile find
    reg,            \* -avoid
    minSize,        \* -min, in bytes
    maxSize,        \* -max, in bytes
    nGoroutines,    \* -threads
    nRepeated,      \* -repeated
    closed,         \* channel -> number of times it has been closed
    errc,           \* the buffered error channel of the walker
    walkPc,         \* walker goroutine: "send", "errc", "close", "exited"
    walkPos,        \* index of the entry the walker is handing off
    walkRes,        \* what filepath.Walk returned
    stderr,         \* paths warned about as out of bounds
    hpc,            \* hash worker -> "recv", "send", "returned"
    hfh,            \* hash worker -> the fHashed it is sending
    wg,             \* pool -> sync.WaitGroup counter
    closer,         \* pool -> "wait", "exited" (the goroutine that closes the output)
    runPc,          \* run: "flags", "group", "count", "errc", "returned", "panicked"
    sameDir,        \* groupByDirectory's map: directory -> sequence of fHashed
    runErr,         \* what run returned
    enumPc,         \* getDirectoriesToCompare goroutine: "idle", "send", "exited"
    directories,    \* the keys of the map in the order the map iteration gave
    ei, ej,         \* the enumerator's loop indices
    cpc,            \* comparison worker -> "idle", "recv", "send", "returned"
    crf,            \* comparison worker -> the repeatedFiles it is sending
    cdirs,          \* comparison worker -> the keys of the two directories of its c
    comparedDirs,   \* history: the keys of the pair behind each array of repeatedMatrix
    repeatedMatrix, \* countRepeatedFiles' result
    out,            \* the report sink: sequence of lines written
    sizeArg,        \* the string a call of parseToBytes is given, one character each
    sizeRet         \* what the call returned: [n, err], or NoCall before it returns

cfgVars == <<fs, reg, minSize, maxSize, nGoroutines, nRepeated, sizeArg, sizeRet>>
walkVars == <<errc, walkPc, walkPos, walkRes, stderr>>
hashVars == <<hpc, hfh>>
cmpVars == <<enumPc, directories, ei, ej, cpc, crf, cdirs>>
vars == <<cfgVars, closed, walkVars, hashVars, wg, closer, runPc, sameDir, runErr,
          cmpVars, repeatedMatrix, comparedDirs, out>>

Workers == 1..nGoroutines
IsClosed(ch) == closed[ch] > 0

(***************************************************************************)
(* getFilesRecursively: the walk function on entry k.                      *)
(***************************************************************************)
\* info.Size()
FileSize(k) == Len(fs[k].data)

\* WalkFn with a size window that excludes its two bounds (mutant)
WalkFnExclusive(k) ==
    IF fs[k].lstatErr THEN "error"
    ELSE IF ~fs[k].regular THEN "skip"
    ELSE IF reg # NoReg /\ MatchString(reg, Entries[k].path) THEN "skip"
    ELSE IF FileSize(k) <= minSize \/ FileSize(k) >= maxSize THEN "warn"
    ELSE "select"

\* the outcome of the walk function at entry k, up to its select
WalkFn(k) ==
    IF fs[k].lstatErr THEN "error"
    ELSE IF ~fs[k].regular THEN "skip"
    ELSE IF reg # NoReg /\ MatchString(reg, Entries[k].path) THEN "skip"
    ELSE IF FileSize(k) < minSize \/ FileSize(k) > maxSize THEN "warn"
    ELSE "select"

\* filepath.Walk from entry k on, up to the next select or to its return:
\* where the walker stops, what Walk returned, and the warnings written
RECURSIVE WalkFrom(_, _)
WalkFrom(k, warned) ==
    IF k > NEntries THEN [pc |-> "errc", pos |-> k, res |-> Nil, warned |-> warned]
    ELSE CASE WalkFn(k) = "error" ->
                [pc |-> "errc", pos |-> k, res |-> WalkError, warned |-> warned]
           [] WalkFn(k) = "skip" -> WalkFrom(k + 1, warned)
           [] WalkFn(k) = "warn" -> WalkFrom(k + 1, Append(warned, Entries[k].path))
           [] OTHER -> [pc |-> "send", pos |-> k, res |-> Nil, warned |-> warned]

\* HashFile taking the digest before the file is read (mutant)
HashFileUnread(k) ==
    [err       |-> IF fs[k].readable THEN Nil ELSE ReadError,
     path      |-> Entries[k].path,
     directory |-> Dir(Entries[k].path),
     hash      |-> Md5Sum(<<>>)]

\* HashFile dropping the error of os.ReadFile (mutant)
HashFileNoErr(k) ==
    [err       |-> Nil,
     path      |-> Entries[k].path,
     directory |-> Dir(Entries[k].path),
     hash      |-> Md5Sum(IF fs[k].readable THEN fs[k].data ELSE <<>>)]

\* os.ReadFile and md5.Sum in a hash worker: the record it builds for entry k
HashFile(k) ==
    [err       |-> IF fs[k].readable THEN Nil ELSE ReadError,
     path      |-> Entries[k].path,
     directory |-> Dir(Entries[k].path),
     hash      |-> Md5Sum(IF fs[k].readable THEN fs[k].data ELSE <<>>)]

\* paths <- path taken by worker w (main.go:96 and :131), then the walk goes on
PathHandoff(w) ==
    /\ walkPc = "send"
    /\ hpc[w] = "recv"
    /\ LET next == WalkFrom(walkPos + 1, stderr) IN
        /\ walkPc' = next.pc
        /\ walkPos' = next.pos
        /\ walkRes' = next.res
        /\ stderr' = next.warned
    /\ hpc' = [hpc EXCEPT ![w] = "send"]
    /\ hfh' = [hfh EXCEPT ![w] = HashFile(walkPos)]
    /\ UNCHANGED <<cfgVars, closed, errc, wg, closer, runPc, sameDir, runErr,
                   cmpVars, repeatedMatrix, comparedDirs, out>>

\* case <-done: return errors.New("walk canceled") (main.go:98)
WalkCancel ==
    /\ walkPc = "send"
    /\ IsClosed("done")
    /\ walkPc' = "errc"
    /\ walkRes' = WalkCanceled
    /\ UNCHANGED <<cfgVars, closed, errc, walkPos, stderr, hashVars, wg, closer,
                   runPc, sameDir, runErr, cmpVars, repeatedMatrix, comparedDirs, out>>

\* the send on an errc made without capacity: it waits for run's receive (mutant)
WalkErrcUnbuffered ==
    /\ walkPc = "errc"
    /\ runPc = "errc"
    /\ errc' = Append(errc, walkRes)
    /\ walkPc' = "close"
    /\ UNCHANGED <<cfgVars, closed, walkPos, walkRes, stderr, hashVars, wg, closer,
                   runPc, sameDir, runErr, cmpVars, repeatedMatrix, comparedDirs, out>>

\* errc <- filepath.Walk(...) (main.go:75): errc has capacity 1
WalkErrc ==
    /\ walkPc = "errc"
    /\ Len(errc) < 1
    /\ errc' = Append(errc, walkRes)
    /\ walkPc' = "close"
    /\ UNCHANGED <<cfgVars, closed, walkPos, walkRes, stderr, hashVars, wg, closer,
                   runPc, sameDir, runErr, cmpVars, repeatedMatrix, comparedDirs, out>>

\* defer close(paths) (main.go:73)
WalkClose ==
    /\ walkPc = "close"
    /\ closed' = [closed EXCEPT !["paths"] = @ + 1]
    /\ walkPc' = "exited"
    /\ UNCHANGED <<cfgVars, errc, walkPos, walkRes, stderr, hashVars, wg, closer,
                   runPc, sameDir, runErr, cmpVars, repeatedMatrix, comparedDirs, out>>

(***************************************************************************)
(* md5All's workers and executeGoroutines' closer (pool "hash").           *)
(***************************************************************************)
\* run returning without the deferred close (mutant)
CloseDoneNever(c) == c

\* run's return: the deferred close(done) (main.go:342)
CloseDone(c) == [c EXCEPT !["done"] = @ + 1]

\* groupByDirectory keeping only the last record of a directory (mutant)
GroupOverwrite(m, fh) ==
    [d \in DOMAIN m \cup {fh.directory} |-> IF d = fh.directory THEN <<fh>> ELSE m[d]]

\* groupByDirectory putting a record in front of its directory's records (mutant)
GroupPrepend(m, fh) ==
    IF fh.directory \in DOMAIN m
    THEN [m EXCEPT ![fh.directory] = <<fh>> \o @]
    ELSE [d \in DOMAIN m \cup {fh.directory} |->
            IF d = fh.directory THEN <<fh>> ELSE m[d]]

\* groupByDirectory: sameDir[fh.directory] = append(sameDir[fh.directory], fh)
GroupAppend(m, fh) ==
    IF fh.directory \in DOMAIN m
    THEN [m EXCEPT ![fh.directory] = Append(@, fh)]
    ELSE [d \in DOMAIN m \cup {fh.directory} |->
            IF d = fh.directory THEN <<fh>> ELSE m[d]]

\* hashes <- fHashed{...} received by groupByDirectory's range loop
\* (main.go:134 and :157): a record with an error ends the loop, run returns
\* the error and its deferred close(done) runs
HashSend(w) ==
    /\ hpc[w] = "send"
    /\ runPc = "group"
    /\ hpc' = [hpc EXCEPT ![w] = "recv"]
    /\ hfh' = [hfh EXCEPT ![w] = NoFile]
    /\ IF hfh[w].err # Nil
       THEN /\ runErr' = hfh[w].err
            /\ runPc' = "returned"
            /\ closed' = CloseDone(closed)
            /\ UNCHANGED sameDir
       ELSE /\ sameDir' = GroupAppend(sameDir, hfh[w])
            /\ UNCHANGED <<runErr, runPc, closed>>
    /\ UNCHANGED <<cfgVars, walkVars, wg, closer, cmpVars, repeatedMatrix, comparedDirs, out>>

\* a hash worker whose send does not watch done (mutant)
HashSendOnly(w) ==
    /\ FALSE
    /\ UNCHANGED vars

\* a hash worker that drops its record when done is closed and goes on with
\* the next path (mutant)
HashCancelContinue(w) ==
    /\ hpc[w] = "send"
    /\ IsClosed("done")
    /\ hpc' = [hpc EXCEPT ![w] = "recv"]
    /\ hfh' = [hfh EXCEPT ![w] = NoFile]
    /\ UNCHANGED <<cfgVars, closed, walkVars, wg, closer, runPc, sameDir, runErr,
                   cmpVars, repeatedMatrix, comparedDirs, out>>

\* case <-done: return (main.go:140), then wg.Done()
HashCancel(w) ==
    /\ hpc[w] = "send"
    /\ IsClosed("done")
    /\ hpc' = [hpc EXCEPT ![w] = "returned"]
    /\ hfh' = [hfh EXCEPT ![w] = NoFile]
    /\ wg' = [wg EXCEPT !["hash"] = @ - 1]
    /\ UNCHANGED <<cfgVars, closed, walkVars, closer, runPc, sameDir, runErr,
                   cmpVars, repeatedMatrix, comparedDirs, out>>

\* range paths ends when paths is closed (main.go:131), then wg.Done()
HashExit(w) ==
    /\ hpc[w] = "recv"
    /\ IsClosed("paths")
    /\ hpc' = [hpc EXCEPT ![w] = "returned"]
    /\ wg' = [wg EXCEPT !["hash"] = @ - 1]
    /\ UNCHANGED <<cfgVars, closed, walkVars, hfh, closer, runPc, sameDir, runErr,
                   cmpVars, repeatedMatrix, comparedDirs, out>>

\* WaitDone of a wait group that was given n-1 for n workers (mutant)
WaitDoneOneShort(pool) == wg[pool] <= 1

\* wg.Wait() of executeGoroutines' closer (main.go:113)
WaitDone(pool) == wg[pool] = 0

\* executeGoroutines' closer: wg.Wait(); closeFunc() (main.go:112-115)
CloseHashes ==
    /\ closer["hash"] = "wait"
    /\ WaitDone("hash")
    /\ closer' = [closer EXCEPT !["hash"] = "exited"]
    /\ closed' = [closed EXCEPT !["hashes"] = @ + 1]
    /\ UNCHANGED <<cfgVars, walkVars, hashVars, wg, runPc, sameDir, runErr,
                   cmpVars, repeatedMatrix, comparedDirs, out>>

(***************************************************************************)
(* getDirectoriesToCompare, countRepeatedFiles (pool "cmp") and            *)
(* printRepeatedFiles.                                                     *)
(***************************************************************************)
\* the orders in which ranging over a map with these keys can yield them
KeyOrders(keys) ==
    {s \in [1..Cardinality(keys) -> keys] : \A d \in keys : \E i \in DOMAIN s : s[i] = d}

\* EnumAfter with the inner loop ranging over directories[i:] (mutant)
EnumAfterFromSelf(i, j, D) ==
    IF j < D THEN [pc |-> "send", i |-> i, j |-> j + 1]
    ELSE IF i + 1 <= D THEN [pc |-> "send", i |-> i + 1, j |-> i + 1]
    ELSE [pc |-> "close", i |-> i, j |-> j]

\* the enumerator's position after the pair (i, j) over D keys:
\* for i, dir1 := range directories { for _, dir2 := range directories[i+1:] {
EnumAfter(i, j, D) ==
    IF j < D THEN [pc |-> "send", i |-> i, j |-> j + 1]
    ELSE IF i + 2 <= D THEN [pc |-> "send", i |-> i + 1, j |-> i + 2]
    ELSE [pc |-> "close", i |-> i, j |-> j]

\* its position when the loops start
EnumFirst(D) ==
    IF D >= 2 THEN [pc |-> "send", i |-> 1, j |-> 2]
    ELSE [pc |-> "close", i |-> 1, j |-> 1]

\* CompareOne leaving the inner loop at the first match (mutant)
RECURSIVE CompareOneBreak(_, _)
CompareOneBreak(fh1, files2) ==
    IF files2 = <<>> THEN <<>>
    ELSE IF fh1.hash = Head(files2).hash THEN <<[f1 |-> fh1, f2 |-> Head(files2)]>>
    ELSE CompareOneBreak(fh1, Tail(files2))

\* the inner loop of a comparison worker for one fh1 (main.go:217-221)
RECURSIVE CompareOne(_, _)
CompareOne(fh1, files2) ==
    IF files2 = <<>> THEN <<>>
    ELSE (IF fh1.hash = Head(files2).hash
          THEN <<[f1 |-> fh1, f2 |-> Head(files2)]>> ELSE <<>>)
         \o CompareOne(fh1, Tail(files2))

\* the nested loops of a comparison worker (main.go:215-222)
RECURSIVE CompareFiles(_, _)
CompareFiles(files1, files2) ==
    IF files1 = <<>> THEN <<>>
    ELSE CompareOne(Head(files1), files2) \o CompareFiles(Tail(files1), files2)

\* groupByDirectory returns (sameDir, nil) once hashes is closed; run starts
\* the enumerator, which ranges over the map, and the comparison pool
\* (main.go:165, :351, :352)
GroupEnd ==
    /\ runPc = "group"
    /\ IsClosed("hashes")
    /\ runPc' = "count"
    /\ \E order \in KeyOrders(DOMAIN sameDir) :
        /\ directories' = order
        /\ LET first == EnumFirst(Len(order)) IN
            /\ enumPc' = first.pc
            /\ ei' = first.i
            /\ ej' = first.j
    /\ cpc' = [w \in Workers |-> "recv"]
    /\ wg' = [wg EXCEPT !["cmp"] = nGoroutines]
    /\ closer' = [closer EXCEPT !["cmp"] = "wait"]
    /\ UNCHANGED <<cfgVars, closed, walkVars, hashVars, sameDir, runErr, crf, cdirs,
                   repeatedMatrix, comparedDirs, out>>

\* repeated <- fToCompare{...} taken by comparison worker w, which compares
\* the two directories (main.go:190 and :213-222)
PairHandoff(w) ==
    /\ enumPc = "send"
    /\ cpc[w] = "recv"
    /\ cpc' = [cpc EXCEPT ![w] = "send"]
    /\ crf' = [crf EXCEPT ![w] =
                 CompareFiles(sameDir[directories[ei]], sameDir[directories[ej]])]
    /\ cdirs' = [cdirs EXCEPT ![w] = <<directories[ei], directories[ej]>>]
    /\ LET next == EnumAfter(ei, ej, Len(directories)) IN
        /\ enumPc' = next.pc
        /\ ei' = next.i
        /\ ej' = next.j
    /\ UNCHANGED <<cfgVars, closed, walkVars, hashVars, wg, closer, runPc, sameDir,
                   runErr, directories, repeatedMatrix, comparedDirs, out>>

\* defer close(repeated) (main.go:178)
EnumClose ==
    /\ enumPc = "close"
    /\ enumPc' = "exited"
    /\ closed' = [closed EXCEPT !["repeated"] = @ + 1]
    /\ UNCHANGED <<cfgVars, walkVars, hashVars, wg, closer, runPc, sameDir, runErr,
                   directories, ei, ej, cpc, crf, cdirs, repeatedMatrix, comparedDirs,
                   out>>

\* repeatedArray <- repeatedFiles received by countRepeatedFiles' range loop
\* (main.go:225 and :237-239)
ResultSend(w) ==
    /\ cpc[w] = "send"
    /\ runPc = "count"
    /\ cpc' = [cpc EXCEPT ![w] = "recv"]
    /\ crf' = [crf EXCEPT ![w] = <<>>]
    /\ cdirs' = [cdirs EXCEPT ![w] = <<>>]
    /\ repeatedMatrix' = Append(repeatedMatrix, crf[w])
    /\ comparedDirs' = Append(comparedDirs, cdirs[w])
    /\ UNCHANGED <<cfgVars, closed, walkVars, hashVars, wg, closer, runPc, sameDir,
                   runErr, enumPc, directories, ei, ej, out>>

\* range f2c ends when repeated is closed (main.go:213), then wg.Done()
CompareExit(w) ==
    /\ cpc[w] = "recv"
    /\ IsClosed("repeated")
    /\ cpc' = [cpc EXCEPT ![w] = "returned"]
    /\ wg' = [wg EXCEPT !["cmp"] = @ - 1]
    /\ UNCHANGED <<cfgVars, closed, walkVars, hashVars, closer, runPc, sameDir,
                   runErr, enumPc, directories, ei, ej, crf, cdirs, repeatedMatrix,
                   comparedDirs, out>>

\* executeGoroutines' closer of the comparison pool: wg.Wait(); close(repeatedArray)
CloseRepeatedArray ==
    /\ closer["cmp"] = "wait"
    /\ WaitDone("cmp")
    /\ closer' = [closer EXCEPT !["cmp"] = "exited"]
    /\ closed' = [closed EXCEPT !["repeatedArray"] = @ + 1]
    /\ UNCHANGED <<cfgVars, walkVars, hashVars, wg, runPc, sameDir, runErr,
                   cmpVars, repeatedMatrix, comparedDirs, out>>

Max(a, b) == IF a > b THEN a ELSE b

\* biggestFilenameSize (main.go:246-259)
RECURSIVE BiggestFilenameSize(_, _, _)
BiggestFilenameSize(bigestSize1, bigestSize2, frs) ==
    IF frs = <<>> THEN <<bigestSize1, bigestSize2>>
    ELSE BiggestFilenameSize(Max(bigestSize1, Len(Base(Head(frs).f1.path))),
                             Max(bigestSize2, Len(Base(Head(frs).f2.path))),
                             Tail(frs))

\* printDividingLine without the room for " == " and the two bars' columns (mutant)
DividingLineNarrow(size1, size2) ==
    [kind |-> "line", dashes |-> size1 + size2,
     size1 |-> size1, size2 |-> size2, path1 |-> <<>>, path2 |-> <<>>]

\* printDividingLine (main.go:261-263): "+", size1+size2+4 dashes, "+"
DividingLine(size1, size2) ==
    [kind |-> "line", dashes |-> size1 + size2 + 4,
     size1 |-> size1, size2 |-> size2, path1 |-> <<>>, path2 |-> <<>>]

\* printTwoFiles (main.go:264-266): "|%*s == %-*s|"
TwoFiles(size1, size2, path1, path2) ==
    [kind |-> "files", dashes |-> 0,
     size1 |-> size1, size2 |-> size2, path1 |-> path1, path2 |-> path2]

\* the lines printed for the matched files of a block (main.go:280-283)
RECURSIVE FileLines(_, _, _)
FileLines(size1, size2, frs) ==
    IF frs = <<>> THEN <<>>
    ELSE <<TwoFiles(size1, size2, <<Base(Head(frs).f1.path)>>, <<Base(Head(frs).f2.path)>>)>>
         \o FileLines(size1, size2, Tail(frs))

\* the block of one repeatedArray (main.go:273-285)
Block(repeatedArray) ==
    LET dir1 == repeatedArray[1].f1.directory
        dir2 == repeatedArray[1].f2.directory
        sizes == BiggestFilenameSize(StrLen(dir1), StrLen(dir2), repeatedArray)
    IN  <<DividingLine(sizes[1], sizes[2]),
          TwoFiles(sizes[1], sizes[2], dir1, dir2),
          DividingLine(sizes[1], sizes[2])>>
        \o FileLines(sizes[1], sizes[2], repeatedArray)
        \o <<DividingLine(sizes[1], sizes[2])>>

\* whether the loop of printRepeatedFiles skips this array (main.go:269)
BelowThreshold(repeatedArray, n) == Len(repeatedArray) < n

\* printRepeatedFiles (main.go:268-286) from array k on: the lines written and
\* whether repeatedArray[0] of an empty array stopped it with a panic
RECURSIVE PrintFrom(_, _, _, _)
PrintFrom(matrix, k, n, written) ==
    IF k > Len(matrix) THEN [out |-> written, panicked |-> FALSE]
    ELSE IF BelowThreshold(matrix[k], n) THEN PrintFrom(matrix, k + 1, n, written)
    ELSE IF matrix[k] = <<>> THEN [out |-> written, panicked |-> TRUE]
    ELSE PrintFrom(matrix, k + 1, n, written \o Block(matrix[k]))

PrintRepeatedFiles(matrix, n) == PrintFrom(matrix, 1, n, <<>>)

\* countRepeatedFiles returns once repeatedArray is closed and run prints the
\* report (main.go:241, :353); a panic unwinds run through its deferred
\* close(done)
Report ==
    /\ runPc = "count"
    /\ IsClosed("repeatedArray")
    /\ LET printed == PrintRepeatedFiles(repeatedMatrix, nRepeated) IN
        /\ out' = printed.out
        /\ IF printed.panicked
           THEN /\ runPc' = "panicked"
                /\ closed' = CloseDone(closed)
           ELSE /\ runPc' = "errc"
                /\ UNCHANGED closed
    /\ UNCHANGED <<cfgVars, walkVars, hashVars, wg, closer, sameDir, runErr,
                   cmpVars, repeatedMatrix, comparedDirs>>

\* return <-errc (main.go:357), then the deferred close(done)
RunReturn ==
    /\ runPc = "errc"
    /\ errc # <<>>
    /\ runErr' = Head(errc)
    /\ errc' = Tail(errc)
    /\ runPc' = "returned"
    /\ closed' = CloseDone(closed)
    /\ UNCHANGED <<cfgVars, walkPc, walkPos, walkRes, stderr, hashVars, wg, closer,
                   sameDir, cmpVars, repeatedMatrix, comparedDirs, out>>

(***************************************************************************)
(* The initial states: run has parsed its flags, created done and started  *)
(* the walker, the hash pool and its closer, and is in groupByDirectory.    *)
(***************************************************************************)
DirAttr == [lstatErr |-> FALSE, regular |-> FALSE, readable |-> FALSE, data |-> <<>>]
OkFile(data) == [lstatErr |-> FALSE, regular |-> TRUE, readable |-> TRUE, data |-> data]
\* a file that ReadFile cannot read (permissions, or gone since the walk saw it)
Unreadable == [OkFile(<<1>>) EXCEPT !.readable = FALSE]
\* a symlink, device or socket
Irregular == [OkFile(<<>>) EXCEPT !.regular = FALSE]
\* an entry whose lstat or directory read fails
Failing == [DirAttr EXCEPT !.lstatErr = TRUE]

Bytes == 1..MaxByte
FileSeq == SelectSeq([k \in 1..NEntries |-> k], LAMBDA k : ~Entries[k].dir)

\* the tree with file attributes attr (one per file, in walk order)
Tree(attr) ==
    [k \in 1..NEntries |->
        IF Entries[k].dir THEN DirAttr
        ELSE attr[CHOOSE i \in 1..Len(FileSeq) : FileSeq[i] = k]]

\* one-byte contents up to a renaming of the bytes: each file holds a byte
\* seen before or the next unused one
Contents ==
    {c \in [1..Len(FileSeq) -> Bytes] :
        \A i \in 1..Len(FileSeq) :
            \/ c[i] = 1
            \/ \E j \in 1..(i - 1) : c[j] >= c[i] - 1}

\* every file regular, readable and one byte long
PlainFileSystems == {Tree([i \in 1..Len(FileSeq) |-> OkFile(<<c[i]>>)]) : c \in Contents}
SameFileSystem == Tree([i \in 1..Len(FileSeq) |-> OkFile(<<1>>)])

\* the same-content tree with one entry out of the ordinary
OddFileSystems ==
    {[SameFileSystem EXCEPT ![k] = a] :
        k \in FileIdx, a \in {Unreadable, Irregular, Failing, OkFile(<<>>), OkFile(<<1, 1>>)}}
    \cup {[SameFileSystem EXCEPT ![k] = Failing] : k \in DirIdx}

\* any number of unreadable files
UnreadableFileSystems ==
    {Tree(a) : a \in [1..Len(FileSeq) -> {OkFile(<<1>>), Unreadable}]}

\* the default -max, "1GB" (main.go:299)
GB == 1073741824

\* an unreadable file and a later entry that fails the walk
MixedFileSystems ==
    {[SameFileSystem EXCEPT ![p[1]] = Unreadable, ![p[2]] = Failing] :
        p \in {q \in FileIdx \X (1..NEntries) : q[2] > q[1]}}

\* every content pattern, with the last directory failing the walk
CutFileSystems ==
    {[f EXCEPT ![CHOOSE k \in DirIdx : \A j \in DirIdx : j <= k] = Failing] :
        f \in PlainFileSystems}

DefaultWindow == <<0, GB>>
Windows == {DefaultWindow, <<1, 1>>}

\* -avoid b, b$, gggg$, f, r
Regs ==
    {[word |-> "b", anchored |-> FALSE], [word |-> "b", anchored |-> TRUE],
     [word |-> "gggg", anchored |-> TRUE], [word |-> "f", anchored |-> FALSE],
     [word |-> "r", anchored |-> FALSE]}

Config(f, r, w, t) == [fs |-> f, reg |-> r, window |-> w, nRepeated |-> t]

\* the inputs of the model: every content pattern under every threshold,
\* walked in full and cut short by a failing directory; one
\* odd entry under both size windows; every exclusion pattern; unreadable
\* files, alone and before an entry that fails the walk
Configs ==
    {Config(f, NoReg, DefaultWindow, t) :
        f \in PlainFileSystems \cup CutFileSystems, t \in -1..MaxRepeated}
    \cup {Config(f, NoReg, w, 1) : f \in OddFileSystems, w \in Windows}
    \cup {Config(SameFileSystem, r, DefaultWindow, 1) : r \in Regs}
    \cup {Config(f, NoReg, DefaultWindow, 1) :
             f \in UnreadableFileSystems \cup MixedFileSystems}

InitPipeline ==
    /\ closed = [ch \in {"paths", "hashes", "repeated", "repeatedArray", "done"} |-> 0]
    /\ errc = <<>>
    /\ LET first == WalkFrom(1, <<>>) IN
        /\ walkPc = first.pc
        /\ walkPos = first.pos
        /\ walkRes = first.res
        /\ stderr = first.warned
    /\ hpc = [w \in Workers |-> "recv"]
    /\ hfh = [w \in Workers |-> NoFile]
    /\ wg = [pool \in {"hash", "cmp"} |-> IF pool = "hash" THEN nGoroutines ELSE 0]
    /\ closer = [pool \in {"hash", "cmp"} |-> IF pool = "hash" THEN "wait" ELSE "idle"]
    /\ runPc = "group"
    /\ sameDir = <<>>
    /\ runErr = Nil
    /\ enumPc = "idle"
    /\ directories = <<>>
    /\ ei = 1
    /\ ej = 1
    /\ cpc = [w \in Workers |-> "idle"]
    /\ crf = [w \in Workers |-> <<>>]
    /\ cdirs = [w \in Workers |-> <<>>]
    /\ comparedDirs = <<>>
    /\ repeatedMatrix = <<>>
    /\ out = <<>>

Init ==
    /\ \E c \in Configs :
        /\ fs = c.fs
        /\ reg = c.reg
        /\ minSize = c.window[1]
        /\ maxSize = c.window[2]
        /\ nRepeated = c.nRepeated
    /\ nGoroutines \in 0..MaxWorkers
    \* the calls of parseToBytes are over, minSize and maxSize hold their results
    /\ sizeArg = <<>>
    /\ sizeRet = NoCall
    /\ InitPipeline

Next ==
    \/ \E w \in Workers : PathHandoff(w)
    \/ WalkCancel
    \/ WalkErrc
    \/ WalkClose
    \/ \E w \in Workers : HashSend(w)
    \/ \E w \in Workers : HashCancel(w)
    \/ \E w \in Workers : HashExit(w)
    \/ CloseHashes
    \/ GroupEnd
    \/ \E w \in Workers : PairHandoff(w)
    \/ EnumClose
    \/ \E w \in Workers : ResultSend(w)
    \/ \E w \in Workers : CompareExit(w)
    \/ CloseRepeatedArray
    \/ Report
    \/ RunReturn

Spec == Init /\ [][Next]_vars

\* The Go scheduler runs every goroutine that can take a step: as long as
\* some step of the pipeline is possible, one is taken.
FairSpec == Spec /\ WF_vars(Next)

(***************************************************************************)
(* run's calls of parseToBytes, before the pipeline starts.                 *)
(***************************************************************************)
\* run has not started the pipeline: it is at parseToBytes (main.go:308, :313)
ParseInit ==
    /\ sizeArg \in SizeStrings
    /\ sizeRet = NoCall
    /\ fs = SameFileSystem
    /\ reg = NoReg
    /\ minSize = 0
    /\ maxSize = 0
    /\ nRepeated = 1
    /\ nGoroutines = 0
    /\ closed = [ch \in {"paths", "hashes", "repeated", "repeatedArray", "done"} |-> 0]
    /\ errc = <<>>
    /\ walkPc = "idle"
    /\ walkPos = 1
    /\ walkRes = Nil
    /\ stderr = <<>>
    /\ hpc = <<>>
    /\ hfh = <<>>
    /\ wg = [pool \in {"hash", "cmp"} |-> 0]
    /\ closer = [pool \in {"hash", "cmp"} |-> "idle"]
    /\ runPc = "flags"
    /\ sameDir = <<>>
    /\ runErr = Nil
    /\ enumPc = "idle"
    /\ directories = <<>>
    /\ ei = 1
    /\ ej = 1
    /\ cpc = <<>>
    /\ crf = <<>>
    /\ cdirs = <<>>
    /\ comparedDirs = <<>>
    /\ repeatedMatrix = <<>>
    /\ out = <<>>

\* the call returns; on an error run returns it (main.go:309-311, :314-316)
ParseReturn ==
    /\ runPc = "flags"
    /\ sizeRet = NoCall
    /\ sizeRet' = ParseToBytes(sizeArg)
    /\ runErr' = sizeRet'.err
    /\ runPc' = IF sizeRet'.err # Nil THEN "returned" ELSE "flags"
    /\ UNCHANGED <<fs, reg, minSize, maxSize, nGoroutines, nRepeated, sizeArg, closed,
                   walkVars, hashVars, wg, closer, sameDir, cmpVars, repeatedMatrix,
                   comparedDirs, out>>

ParseNext == ParseReturn

ParseSpec == ParseInit /\ [][ParseNext]_vars

(***************************************************************************)
(* Properties.                                                             *)
(***************************************************************************)
Range(s) == {s[i] : i \in DOMAIN s}

\* countRepeatedFiles has returned its matrix
Counted == IsClosed("repeatedArray")

\* The done cases of the enumerator's and the comparison workers' selects
\* (main.go:191, :226) have no action above: done is closed only when run
\* returns or panics, and by then none of them is at its select.
DoneOpenWhileComparing ==
    IsClosed("done") =>
        /\ enumPc # "send"
        /\ \A w \in Workers : cpc[w] \in {"idle", "returned"}

\* C1: with n >= 1 workers, no result is for a directory paired with itself
\* and no unordered pair of directories has two results; once
\* countRepeatedFiles returns, the matrix holds exactly D*(D-1)/2 results, one
\* for each unordered pair of distinct keys of the directory map.
PairCompleteness ==
    nGoroutines >= 1 =>
        LET keys == DOMAIN sameDir
            D == Cardinality(keys)
            N == Len(repeatedMatrix)
        IN  /\ Len(comparedDirs) = N
            /\ \A k \in 1..N :
                /\ comparedDirs[k][1] # comparedDirs[k][2]
                /\ Range(comparedDirs[k]) \subseteq keys
            /\ \A k, l \in 1..N :
                k # l => Range(comparedDirs[k]) # Range(comparedDirs[l])
            /\ Counted =>
                /\ 2 * N = D * (D - 1)
                /\ \A d1, d2 \in keys :
                    d1 # d2 => \E k \in 1..N : Range(comparedDirs[k]) = {d1, d2}

\* C1 witness: two workers have produced the three results of three
\* directories, one of them without a match
PairCompletenessWitness ==
    /\ Counted
    /\ nGoroutines >= 2
    /\ Cardinality(DOMAIN sameDir) = 3
    /\ Len(repeatedMatrix) = 3
    /\ \E k \in 1..Len(repeatedMatrix) : repeatedMatrix[k] = <<>>
    /\ \E k \in 1..Len(repeatedMatrix) : repeatedMatrix[k] # <<>>

\* printRepeatedFiles has run (to its end or to a panic)
Reported == runPc \in {"errc", "panicked"} \/ (runPc = "returned" /\ Counted)

\* the report holds a block headed by the two directories of result k
HasBlock(k) ==
    \E i \in DOMAIN out :
        /\ out[i].kind = "files"
        /\ out[i].path1 = comparedDirs[k][1]
        /\ out[i].path2 = comparedDirs[k][2]

\* C2: for every matrix and every threshold, negative and zero included,
\* printRepeatedFiles completes and a pair has a block in the report iff its
\* number of recorded matches is at least the threshold.
ThresholdCorrectness ==
    Reported =>
        /\ runPc # "panicked"
        /\ \A k \in 1..Len(repeatedMatrix) :
            HasBlock(k) <=> Len(repeatedMatrix[k]) >= nRepeated

\* the same for thresholds of at least 1, which the code satisfies
ThresholdCorrectnessPositive == nRepeated >= 1 => ThresholdCorrectness

\* the entries whose path a hash worker has received
Handed == {k \in 1..(walkPos - 1) : WalkFn(k) = "select"}

\* a hash worker has been handed a file it cannot read
UnreadableHanded == \E k \in Handed : ~fs[k].readable

\* C3: once a hash worker has been handed an unreadable file, run never gets
\* past groupByDirectory and writes nothing to the report sink, and it
\* eventually returns a read error.
ReadErrorAborts ==
    /\ [](UnreadableHanded =>
            /\ out = <<>>
            /\ runPc \in {"group", "returned"}
            /\ runPc = "returned" => runErr = ReadError)
    /\ (UnreadableHanded ~> (runPc = "returned" /\ runErr = ReadError))

\* C3 witness: run has returned the read error of one file while another
\* worker still holds a record and the walker is still handing off paths
ReadErrorAbortsWitness ==
    /\ UnreadableHanded
    /\ runPc = "returned"
    /\ runErr = ReadError
    /\ walkPc = "send"
    /\ \E w \in Workers : hpc[w] = "send"

\* C4: the output channel of each pool (hashes, repeatedArray) is closed at
\* most once and only when all n workers of the pool have returned, so that no
\* worker is left to send on it; it has been closed exactly once when run
\* moves past the loop that drains it.  Cancelled executions included.
FanInClose ==
    /\ closed["hashes"] <= 1
    /\ closed["repeatedArray"] <= 1
    /\ IsClosed("hashes") =>
        /\ wg["hash"] = 0
        /\ \A w \in Workers : hpc[w] = "returned"
    /\ IsClosed("repeatedArray") =>
        /\ wg["cmp"] = 0
        /\ \A w \in Workers : cpc[w] = "returned"
    /\ runPc \in {"count", "errc", "panicked"} => closed["hashes"] = 1
    /\ runPc \in {"errc", "panicked"} => closed["repeatedArray"] = 1

\* C4 witness: a read error has cancelled the run and the walk, and hashes
\* has been closed behind a pool of two workers
FanInCloseWitness ==
    /\ nGoroutines >= 2
    /\ runErr = ReadError
    /\ IsClosed("done")
    /\ closed["hashes"] = 1
    /\ walkRes = WalkCanceled

\* every goroutine of the hash stage has exited
HashStageExited ==
    /\ walkPc = "exited"
    /\ \A w \in Workers : hpc[w] = "returned"
    /\ closer["hash"] = "exited"

\* C5: once done is closed after a read error, the walker, every hash worker
\* and the closer of hashes eventually exit, although groupByDirectory no
\* longer receives.
CancelReleasesHashStage ==
    (IsClosed("done") /\ runErr = ReadError) ~> HashStageExited

\* C5 witness: done is closed after a read error while the walker is at its
\* select, one worker waits for a path and another holds a record nobody
\* will receive
CancelReleasesHashStageWitness ==
    /\ IsClosed("done")
    /\ runErr = ReadError
    /\ walkPc = "send"
    /\ \E w \in Workers : hpc[w] = "send"
    /\ \E w \in Workers : hpc[w] = "recv"
    /\ closer["hash"] = "wait"

\* C6: after done has been closed the walker hands off no further path.
NoHandoffAfterCancel == [][IsClosed("done") => walkPos' = walkPos]_vars

\* entry k is a regular file outside the exclusion pattern and inside the
\* size window, bounds included
Eligible(k) ==
    /\ ~Entries[k].dir
    /\ fs[k].regular
    /\ reg = NoReg \/ ~MatchString(reg, Entries[k].path)
    /\ minSize <= Len(fs[k].data)
    /\ Len(fs[k].data) <= maxSize

\* the records of the directory map and of the matches
Grouped == UNION {Range(sameDir[d]) : d \in DOMAIN sameDir}
Matched ==
    UNION {UNION {{repeatedMatrix[k][i].f1, repeatedMatrix[k][i].f2} :
                    i \in DOMAIN repeatedMatrix[k]} :
             k \in DOMAIN repeatedMatrix}

Under(p, q) == Len(p) < Len(q) /\ SubSeq(q, 1, Len(p)) = p

\* C8: no file located under a directory whose path matches the exclusion
\* pattern is handed to a hash worker, whether or not the file's own path
\* matches.
ExcludedDirectorySkipped ==
    \A k \in Handed :
        \A d \in DirIdx :
            Under(Entries[d].path, Entries[k].path) =>
                (reg = NoReg \/ ~MatchString(reg, Entries[d].path))

\* the pairs of a record of A and a record of B with equal fingerprints
EqualHashPairs(A, B) ==
    {t \in [f1 : Range(A), f2 : Range(B)] : t.f1.hash = t.f2.hash}

\* list records each equal-fingerprint pair of the two directories once
ExactMatches(list, dirs) ==
    /\ Range(list) = EqualHashPairs(sameDir[dirs[1]], sameDir[dirs[2]])
    /\ Cardinality(Range(list)) = Len(list)
    /\ \A t \in Range(list) :
        /\ t.f1.hash = t.f2.hash
        /\ t.f1.directory = dirs[1]
        /\ t.f2.directory = dirs[2]
        /\ t.f1.directory # t.f2.directory

\* C9: the match list a comparison worker builds for a pair (A, B), and every
\* list in the matrix, is exactly the set of (a, b) with a in A, b in B and
\* a.hash = b.hash, each recorded once; every recorded pair joins records of
\* two different directories.
MatchExactness ==
    /\ \A k \in 1..Len(repeatedMatrix) : ExactMatches(repeatedMatrix[k], comparedDirs[k])
    /\ \A w \in Workers : cpc[w] = "send" => ExactMatches(crf[w], cdirs[w])

\* C9 witness: the matrix holds a list of two matches and an empty list, and
\* a directory has two files with the same fingerprint
MatchExactnessWitness ==
    /\ \E k \in 1..Len(repeatedMatrix) : Len(repeatedMatrix[k]) = 2
    /\ \E k \in 1..Len(repeatedMatrix) : Len(repeatedMatrix[k]) = 0
    /\ \E d \in DOMAIN sameDir :
        /\ Len(sameDir[d]) = 2
        /\ sameDir[d][1].hash = sameDir[d][2].hash

\* C10: a pair is reported only when at least nRepeated distinct files of its
\* first directory have an identical file in the second.
SharedFilesThreshold ==
    (Reported /\ runPc # "panicked") =>
        \A k \in 1..Len(repeatedMatrix) :
            HasBlock(k) =>
                Cardinality({repeatedMatrix[k][i].f1 : i \in DOMAIN repeatedMatrix[k]})
                    >= nRepeated

\* groupByDirectory has returned its map without an error
GroupingDone == runPc = "count" \/ Reported

\* the position of a path in the walk
Index(path) == CHOOSE k \in 1..NEntries : Entries[k].path = path

\* the files the walk selects, by the file system and the flags alone: the
\* walk reaches them before any failing entry
Selected == {k \in 1..NEntries : Eligible(k) /\ \A j \in 1..k : ~fs[j].lstatErr}

\* C11: with n >= 1 workers, the directory map that groupByDirectory returns,
\* viewed as directory -> set of (path, fingerprint), is the one value fixed
\* by the tree and the flags, whatever the pool size and the interleaving;
\* only the order inside a directory is left open.
PoolSizeIndependence ==
    (nGoroutines >= 1 /\ GroupingDone) =>
        /\ DOMAIN sameDir = {Dir(Entries[k].path) : k \in Selected}
        /\ \A d \in DOMAIN sameDir :
            {<<fh.path, fh.hash>> : fh \in Range(sameDir[d])}
                = {<<Entries[k].path, Md5Sum(fs[k].data)>> :
                       k \in {j \in Selected : Dir(Entries[j].path) = d}}

\* C11 witness: two workers have delivered the two files of one directory,
\* of different content, in the reverse of the walk's order
PoolSizeIndependenceWitness ==
    /\ nGoroutines >= 2
    /\ GroupingDone
    /\ \E d \in DOMAIN sameDir :
        /\ Len(sameDir[d]) = 2
        /\ Index(sameDir[d][1].path) > Index(sameDir[d][2].path)
        /\ sameDir[d][1].hash # sameDir[d][2].hash

\* the walk has failed and no file handed to a worker is unreadable
WalkFailedOnly == walkRes = WalkError /\ ~UnreadableHanded

\* C12: when the walk fails and no read fails, done stays open until run ends,
\* and run ends only by returning the walk error, after every file handed off
\* before the failure has been grouped, every pair of their directories
\* compared and every pair that reaches the threshold given its block.
WalkErrorReportedLast ==
    WalkFailedOnly =>
        /\ IsClosed("done") => runPc \in {"returned", "panicked"}
        /\ runPc \in {"returned", "panicked"} =>
            /\ runPc = "returned"
            /\ runErr = WalkError
            /\ {fh.path : fh \in Grouped} = {Entries[k].path : k \in Handed}
            /\ LET D == Cardinality(DOMAIN sameDir) IN
                    nGoroutines >= 1 => 2 * Len(repeatedMatrix) = D * (D - 1)
            /\ \A k \in 1..Len(repeatedMatrix) :
                    HasBlock(k) <=> Len(repeatedMatrix[k]) >= nRepeated

\* the same for thresholds of at least 1, which the code satisfies
WalkErrorReportedLastPositive == nRepeated >= 1 => WalkErrorReportedLast

\* C13: done is never closed twice, and it has been closed exactly when run
\* has ended - by returning nil, a read error or the walk error, or by a
\* panic; nothing closes it while run is still at work.
DoneClosedOnce ==
    /\ closed["done"] <= 1
    /\ closed["done"] = 1 <=> runPc \in {"returned", "panicked"}

\* C13 witness: run has returned the walk error after a report with a block,
\* and done is closed
DoneClosedOnceWitness ==
    /\ runPc = "returned"
    /\ runErr = WalkError
    /\ out # <<>>
    /\ closed["done"] = 1

MaxOf(S) == CHOOSE m \in S : \A x \in S : x <= m

\* the longest base name among the matches of result k, on side 1 or 2
NameWidth(k, side) ==
    MaxOf({Len(Base(IF side = 1 THEN repeatedMatrix[k][i].f1.path
                                 ELSE repeatedMatrix[k][i].f2.path)) :
             i \in DOMAIN repeatedMatrix[k]})

\* the longer of that and of the directory's path on that side
HeaderWidth(k, side) == Max(StrLen(comparedDirs[k][side]), NameWidth(k, side))

\* line i of the report is the header of the block of result k
IsHeader(i, k) ==
    /\ out[i].kind = "files"
    /\ out[i].path1 = comparedDirs[k][1]
    /\ out[i].path2 = comparedDirs[k][2]

\* every block of the report is a divider, the header, a divider, one line
\* per match and a divider, all laid out with the column widths Width(k, _),
\* each divider made of width1 + width2 + 4 dashes
BlocksLaidOut(Width(_, _)) ==
    \A k \in 1..Len(repeatedMatrix) :
        \A i \in DOMAIN out :
            IsHeader(i, k) =>
                LET last == i + 2 + Len(repeatedMatrix[k]) IN
                /\ i > 1 /\ last <= Len(out)
                /\ \A j \in (i - 1)..last :
                    /\ out[j].size1 = Width(k, 1)
                    /\ out[j].size2 = Width(k, 2)
                    /\ out[j].kind = (IF j \in {i - 1, i + 1, last} THEN "line" ELSE "files")
                    /\ out[j].kind = "line" =>
                            out[j].dashes = Width(k, 1) + Width(k, 2) + 4

\* C14 as claimed: the column widths of a block are the longest matched base
\* names of its two sides, and its dividers have width1 + width2 + 4 dashes.
ColumnWidthsNamesOnly == BlocksLaidOut(NameWidth)

\* C14: the column widths of a block are, on each side, the longer of the
\* directory's path and of the longest matched base name, and its dividers
\* have width1 + width2 + 4 dashes.
ColumnWidths == BlocksLaidOut(HeaderWidth)

\* C14 witness: a block in which one column is as wide as its directory's
\* path and the other as wide as a longer base name
ColumnWidthsWitness ==
    \E k \in 1..Len(repeatedMatrix) :
        \E i \in DOMAIN out :
            /\ IsHeader(i, k)
            /\ \E a, b \in 1..2 :
                /\ NameWidth(k, a) > StrLen(comparedDirs[k][a])
                /\ NameWidth(k, b) < StrLen(comparedDirs[k][b])
                /\ out[i - 1].dashes = NameWidth(k, a) + StrLen(comparedDirs[k][b]) + 4

\* every record of the map is free of error and filed under the parent
\* directory of its path
FiledUnderParent ==
    \A d \in DOMAIN sameDir :
        \A i \in DOMAIN sameDir[d] :
            sameDir[d][i].err = Nil /\ d = Dir(sameDir[d][i].path)

\* after a read error run has returned and nothing was compared or reported
GroupedDataUnused ==
    runErr = ReadError =>
        /\ runPc = "returned"
        /\ enumPc = "idle"
        /\ repeatedMatrix = <<>>
        /\ out = <<>>

\* one step of the fold: the map only grows, by the record a worker delivers,
\* at the end of the records of its directory; the record that carries the
\* first error is not added and its error is returned; nothing is added later
FoldStep ==
    /\ runErr = ReadError => sameDir' = sameDir
    /\ (runErr = Nil /\ runErr' = ReadError) =>
            /\ sameDir' = sameDir
            /\ \E w \in Workers : hfh[w].err = ReadError /\ hfh'[w] = NoFile
    /\ sameDir' # sameDir =>
            \E w \in Workers :
                LET d == Dir(hfh[w].path) IN
                /\ hfh[w].err = Nil
                /\ hfh'[w] = NoFile
                /\ DOMAIN sameDir' = DOMAIN sameDir \cup {d}
                /\ sameDir'[d] =
                       Append(IF d \in DOMAIN sameDir THEN sameDir[d] ELSE <<>>, hfh[w])
                /\ \A e \in DOMAIN sameDir \ {d} : sameDir'[e] = sameDir[e]

\* C15: groupByDirectory files every record under the parent directory of its
\* path, after the records that arrived before it; the first record with an
\* error is not added, nor any later one, its error is what run returns, and
\* run then compares and reports nothing.
GroupInArrivalOrder ==
    /\ [](FiledUnderParent /\ GroupedDataUnused)
    /\ [][FoldStep]_vars

\* C15 witness: run has returned a read error after two records of one
\* directory were grouped, the later file of the walk first
GroupInArrivalOrderWitness ==
    /\ runErr = ReadError
    /\ \E d \in DOMAIN sameDir :
        /\ Len(sameDir[d]) = 2
        /\ Index(sameDir[d][1].path) > Index(sameDir[d][2].path)

\* the pairs of directories that comparison workers have taken so far
Taken == Range(comparedDirs) \cup {cdirs[w] : w \in {v \in Workers : cpc[v] = "send"}}

\* the index pairs i < j that come before the enumerator's position
Emitted ==
    {p \in (1..Len(directories)) \X (1..Len(directories)) :
        /\ p[1] < p[2]
        /\ enumPc = "send" => p[1] < ei \/ (p[1] = ei /\ p[2] < ej)}

\* C16: once the enumerator has its key sequence, the keys are in
\* lexicographic order (the order of the walk), and the pairs taken so far
\* are the pairs (keys[i], keys[j]), i < j, that come first in the order of
\* the two nested loops, each with keys[i] as its first directory.
EnumerationSorted ==
    enumPc # "idle" =>
        /\ \A i, j \in 1..Len(directories) :
                i < j => Index(directories[i]) < Index(directories[j])
        /\ Taken = {<<directories[p[1]], directories[p[2]]>> : p \in Emitted}

\* the same without the sorting: the pairs follow the two nested loops over
\* the keys in the order the map iteration gave them, which the code satisfies
EnumerationInKeyOrder ==
    enumPc # "idle" =>
        /\ Range(directories) = DOMAIN sameDir
        /\ Len(directories) = Cardinality(DOMAIN sameDir)
        /\ Taken = {<<directories[p[1]], directories[p[2]]>> : p \in Emitted}

\* the number of records groupByDirectory has received: those it filed and
\* the one whose error it returned
Received ==
    Cardinality(UNION {{<<d, i>> : i \in DOMAIN sameDir[d]} : d \in DOMAIN sameDir})
        + (IF runErr = ReadError THEN 1 ELSE 0)

\* C17: at every moment at most n paths have been handed off by the walker
\* without their record having been received by groupByDirectory, and at
\* most n pairs have been taken from the enumerator without their result
\* having been received by countRepeatedFiles.
Backpressure ==
    /\ Cardinality(Handed) - Received \in 0..nGoroutines
    /\ Cardinality(Emitted) - Len(repeatedMatrix) \in 0..nGoroutines

\* C17 witness: every file has gone through the two hash workers, and the
\* enumerator waits with its third pair while both comparison workers hold a
\* result that has not been received
BackpressureWitness ==
    /\ nGoroutines = 2
    /\ Cardinality(Handed) = Cardinality(FileIdx)
    /\ Received = Cardinality(Handed)
    /\ enumPc = "send"
    /\ Cardinality(Emitted) - Len(repeatedMatrix) = 2

\* run has not received a read error and nothing is cancelled
NoErrorNoCancel == runErr # ReadError /\ (IsClosed("done") => Reported)

\* the paths of the records in the hands of the hash workers
Held == {hfh[w].path : w \in {v \in Workers : hpc[v] = "send"}}

\* C18: without a read error and without cancellation, the paths handed off
\* by the walker are, each exactly once, either in the hands of one worker or
\* in one record of the directory map, and once hashes is closed every one of
\* them has its record in the map.
OneRecordPerPath ==
    NoErrorNoCancel =>
        /\ \A d \in DOMAIN sameDir :
            \A i, j \in DOMAIN sameDir[d] :
                sameDir[d][i].path = sameDir[d][j].path => i = j
        /\ \A v, w \in Workers :
                (hpc[v] = "send" /\ hpc[w] = "send" /\ hfh[v].path = hfh[w].path) => v = w
        /\ Held \cap {fh.path : fh \in Grouped} = {}
        /\ Held \cup {fh.path : fh \in Grouped} = {Entries[k].path : k \in Handed}
        /\ IsClosed("hashes") => Held = {}

\* C18 witness: hashes is closed after two workers have delivered the records
\* of every file of the tree
OneRecordPerPathWitness ==
    /\ nGoroutines = 2
    /\ NoErrorNoCancel
    /\ IsClosed("hashes")
    /\ runPc = "group"
    /\ Received = Cardinality(FileIdx)

\* run has ended, by a return or by a panic
RunEnded == runPc \in {"returned", "panicked"}

\* C19: for every tree and every pool size n >= 0, run is never waiting on
\* errc while the walker is blocked handing off a path, and the pipeline
\* comes to rest only when run has returned.
RunNeverStuck ==
    /\ ~(runPc = "errc" /\ walkPc = "send")
    /\ ~ENABLED Next => runPc = "returned"

\* with n >= 1 the pipeline comes to rest only when run has ended, and run is
\* never waiting on errc while the walker is blocked, which the code satisfies
RunNeverStuckWithWorkers ==
    nGoroutines >= 1 =>
        /\ ~(runPc = "errc" /\ walkPc = "send")
        /\ ~ENABLED Next => RunEnded

\* the walker has sent the result of the walk; run has received it
ErrcSent == walkPc \in {"close", "exited"}
ErrcReceived == runPc = "returned" /\ runErr # ReadError

\* C20: the walker sends the walk's result on errc once, the send is never
\* blocked, and paths is closed only after it; with n >= 1 the result is in
\* errc whenever run is at its final receive; and after run's return, on a
\* read error too, the pipeline comes to rest only with the walker finished.
ErrcSentOnce ==
    /\ Len(errc) = (IF ErrcSent THEN 1 ELSE 0) - (IF ErrcReceived THEN 1 ELSE 0)
    /\ walkPc = "errc" => ENABLED WalkErrc
    /\ IsClosed("paths") => ErrcSent
    /\ (nGoroutines >= 1 /\ runPc = "errc") => errc = <<walkRes>>
    /\ (RunEnded /\ ~ENABLED Next) => walkPc = "exited" /\ closed["paths"] = 1

\* C20 witness: run has returned a read error without receiving from errc,
\* and the walker has finished, its result left in the channel
ErrcSentOnceWitness ==
    /\ runErr = ReadError
    /\ walkPc = "exited"
    /\ errc = <<WalkCanceled>>
    /\ ~ENABLED Next

\* the natural number of a non-negative int64
RECURSIVE Natural(_)
Natural(n) ==
    IF n = <<>> \/ n[Len(n)] # 0 THEN n ELSE Natural(SubSeq(n, 1, Len(n) - 1))

\* the string after the leading digits of the argument
Suffix == SubSeq(sizeArg, Len(LeadingDigits(sizeArg)) + 1, Len(sizeArg))

\* C21: a returned call of parseToBytes has failed exactly when its argument
\* does not start with a digit or what follows the digits is not one of B,
\* KB, MB, GB, TB, PB, EB; otherwise its result is not negative and is the
\* number d of the leading digits times 1024^k, k the index of the unit.
ParseToBytesExact ==
    sizeRet # NoCall =>
        /\ sizeRet.err # Nil <=> (LeadingDigits(sizeArg) = <<>> \/ ~IsUnit(Suffix))
        /\ sizeRet.err = Nil =>
            /\ ~Int64Negative(sizeRet.n)
            /\ Natural(sizeRet.n) =
                   ShiftLimbs(Decimal(LeadingDigits(sizeArg), <<>>), UnitShift(Suffix))

\* what the code satisfies: the call fails exactly when there is no leading
\* digit, the number does not fit an int, or the suffix is not a unit once
\* put in upper case; and its result is d * 1024^k whenever that is below 2^63
ParseToBytesInRange ==
    sizeRet # NoCall =>
        LET d == Decimal(LeadingDigits(sizeArg), <<>>) IN
        /\ sizeRet.err # Nil <=>
                \/ LeadingDigits(sizeArg) = <<>>
                \/ ~FitsInt(d)
                \/ ~IsUnit(ToUpper(Suffix))
        /\ sizeRet.err # Nil => sizeRet.n = Int64Zero
        /\ sizeRet.err = Nil =>
                LET product == ShiftLimbs(d, UnitShift(ToUpper(Suffix))) IN
                FitsInt(product) =>
                    ~Int64Negative(sizeRet.n) /\ Natural(sizeRet.n) = product
====
